---- MODULE Spec2Model ----
(***************************************************************************)
(* A model of P1S_Python_Examples.py: the two pure helpers                 *)
(* (calculate_print_volume, get_material_settings) as operators applied    *)
(* by call actions, and the four printer examples as try/except/finally    *)
(* control flow over an external printer object whose calls may raise.     *)
(*                                                                         *)
(* Numbers.  The dimensions are modelled as integers.  For integer         *)
(* arguments Python's  (model_volume / build_volume) * 100  is exact: the  *)
(* divisor is 2^24, and model_volume * 100 stays far below 2^53, so        *)
(* neither the division nor the multiplication rounds.  The quotient is    *)
(* therefore modelled as an exact fraction [num, den] in lowest terms.     *)
(*                                                                         *)
(* Strings.  A material name is a sequence of one-character strings, so    *)
(* that str.upper() is computed character by character.  The alphabet is   *)
(* ASCII.                                                                  *)
(***************************************************************************)
EXTENDS Integers, Sequences, FiniteSets, TLC

VARIABLES
    op,          \* the helper called last: "none" before any call
    width_mm,    \* arguments of the last calculate_print_volume call
    depth_mm,
    height_mm,
    material,    \* argument of the last get_material_settings call
    result,      \* the object the last call returned, as the caller holds it
    modified,    \* TRUE once the caller has written into that object
    memo,        \* history variable: one earlier call and what it returned
    example,     \* the printer example that is running, "none" if none is
    step,        \* its position: idle, create, try, except, finally, done
    idx,         \* index of the next statement of its try body
    polls,       \* iterations of example_monitor_print's while loop so far
    pending,     \* the exception propagating out of the example, if any
    created,     \* TRUE once bl.Printer(...) has returned the printer object
    log          \* the printer methods invoked so far, in order

callVars == <<op, width_mm, depth_mm, height_mm, material, result, modified>>
exampleVars == <<example, step, idx, polls, pending, created, log>>
vars == <<op, width_mm, depth_mm, height_mm, material, result, modified, memo,
          example, step, idx, polls, pending, created, log>>

\* Python's None, as a record so that it compares with the returned records.
None == [none |-> TRUE]

-----------------------------------------------------------------------------
(* Exact fractions: the values of Python's float expressions on integers.  *)

Abs(x) == IF x < 0 THEN -x ELSE x

RECURSIVE GCD(_, _)
GCD(a, b) == IF b = 0 THEN Abs(a) ELSE GCD(b, a % Abs(b))

\* a / b  for integers a and b > 0, in lowest terms.
TrueDiv(a, b) ==
    LET g == GCD(a, b) IN [num |-> a \div g, den |-> b \div g]

\* q * k  for a fraction q in lowest terms and an integer k > 0; the common
\* factor of k and q.den is cancelled before multiplying.
MulInt(q, k) ==
    LET g == GCD(k, q.den) IN [num |-> q.num * (k \div g), den |-> q.den \div g]

-----------------------------------------------------------------------------
(* Example 6: calculate_print_volume.                                      *)

BUILD_VOLUME_WIDTH == 256
BUILD_VOLUME_DEPTH == 256
BUILD_VOLUME_HEIGHT == 256

FitsStrict(w, d, h) ==
    /\ w < BUILD_VOLUME_WIDTH
    /\ d < BUILD_VOLUME_DEPTH
    /\ h < BUILD_VOLUME_HEIGHT

FitsFootprintOnly(w, d, h) ==
    /\ w <= BUILD_VOLUME_WIDTH
    /\ d <= BUILD_VOLUME_DEPTH

\* fits = (width_mm <= BUILD_VOLUME_WIDTH and depth_mm <= ... and height_mm <= ...)
Fits(w, d, h) ==
    /\ w <= BUILD_VOLUME_WIDTH
    /\ d <= BUILD_VOLUME_DEPTH
    /\ h <= BUILD_VOLUME_HEIGHT

ModelVolumeFootprint(w, d, h) == w * d

\* model_volume = width_mm * depth_mm * height_mm
ModelVolume(w, d, h) == w * d * h

\* build_volume = BUILD_VOLUME_WIDTH * BUILD_VOLUME_DEPTH * BUILD_VOLUME_HEIGHT
BuildVolume == BUILD_VOLUME_WIDTH * BUILD_VOLUME_DEPTH * BUILD_VOLUME_HEIGHT

UtilizationClamped(model_volume, build_volume) ==
    IF model_volume > build_volume
    THEN [num |-> 100, den |-> 1]
    ELSE MulInt(TrueDiv(model_volume, build_volume), 100)

\* utilization_percent = (model_volume / build_volume) * 100
UtilizationPercent(model_volume, build_volume) ==
    MulInt(TrueDiv(model_volume, build_volume), 100)

ClearanceReversed(w, d, h) ==
    [width  |-> w - BUILD_VOLUME_WIDTH,
     depth  |-> d - BUILD_VOLUME_DEPTH,
     height |-> h - BUILD_VOLUME_HEIGHT]

\* "clearance_mm": {"width": BUILD_VOLUME_WIDTH - width_mm, ...}
Clearance(w, d, h) ==
    [width  |-> BUILD_VOLUME_WIDTH - w,
     depth  |-> BUILD_VOLUME_DEPTH - d,
     height |-> BUILD_VOLUME_HEIGHT - h]

\* The dictionary calculate_print_volume returns.
calculate_print_volume(w, d, h) ==
    [fits                |-> Fits(w, d, h),
     model_dimensions_mm |-> [width |-> w, depth |-> d, height |-> h],
     model_volume_mm3    |-> ModelVolume(w, d, h),
     build_volume_mm3    |-> BuildVolume,
     utilization_percent |-> UtilizationPercent(ModelVolume(w, d, h), BuildVolume),
     clearance_mm        |-> Clearance(w, d, h)]

-----------------------------------------------------------------------------
(* Example 5: the limits example_printer_specs lists (the nozzle diameter, *)
(* 0.4 mm, is not an integer and is left out).                             *)

specs ==
    [build_volume  |-> [width_mm |-> 256, depth_mm |-> 256, height_mm |-> 256],
     motion_system |-> [max_speed_mm_per_s |-> 500,
                        max_acceleration_mm_per_s2 |-> 20000],
     toolhead      |-> [max_hotend_temperature_c |-> 300],
     heated_bed    |-> [max_temperature_c |-> 100]]

-----------------------------------------------------------------------------
(* Example 7: get_material_settings.                                       *)

Lowercase == <<"a", "b", "c", "d", "e", "f", "g", "h", "i", "j", "k", "l", "m",
               "n", "o", "p", "q", "r", "s", "t", "u", "v", "w", "x", "y", "z">>
Uppercase == <<"A", "B", "C", "D", "E", "F", "G", "H", "I", "J", "K", "L", "M",
               "N", "O", "P", "Q", "R", "S", "T", "U", "V", "W", "X", "Y", "Z">>

\* The one non-ASCII character whose capital is a letter of a key: the long s
\* (U+017F), a lower-case letter that str.upper() turns into "S".
LongS == "U+017F"

\* One character of str.upper(): a lower-case letter becomes its capital,
\* every other character (capitals, digits, spaces, punctuation) is kept.
UpperChar(c) ==
    IF \E i \in 1..Len(Lowercase) : Lowercase[i] = c
    THEN Uppercase[CHOOSE i \in 1..Len(Lowercase) : Lowercase[i] = c]
    ELSE IF c = LongS THEN "S"
    ELSE c

\* str.upper()
upper(s) == [i \in 1..Len(s) |-> UpperChar(s[i])]

\* str.strip(), for the space character.
RECURSIVE strip(_)
strip(s) ==
    IF s = <<>> THEN s
    ELSE IF Head(s) = " " THEN strip(Tail(s))
    ELSE IF s[Len(s)] = " " THEN strip(SubSeq(s, 1, Len(s) - 1))
    ELSE s

PLA  == <<"P", "L", "A">>
PETG == <<"P", "E", "T", "G">>
ABS  == <<"A", "B", "S">>
ASA  == <<"A", "S", "A">>
TPU  == <<"T", "P", "U">>

Range(lo, hi, rec) == [min |-> lo, max |-> hi, recommended |-> rec]

materialsBedOverLimit ==
    PLA :> [hotend_temp_c      |-> Range(190, 220, 210),
            bed_temp_c         |-> Range(50, 70, 60),
            print_speed_mm_s   |-> Range(40, 200, 100),
            enclosure_required |-> FALSE,
            notes              |-> "Easy to print, good for beginners"]
    @@
    ABS :> [hotend_temp_c      |-> Range(230, 260, 245),
            bed_temp_c         |-> Range(80, 110, 90),
            print_speed_mm_s   |-> Range(40, 180, 100),
            enclosure_required |-> TRUE,
            notes              |-> "Requires enclosed chamber, strong parts"]

\* The dictionary literal  materials = {...}, built anew by every call.
materials ==
    PLA :> [hotend_temp_c      |-> Range(190, 220, 210),
            bed_temp_c         |-> Range(50, 70, 60),
            print_speed_mm_s   |-> Range(40, 200, 100),
            enclosure_required |-> FALSE,
            notes              |-> "Easy to print, good for beginners"]
    @@
    PETG :> [hotend_temp_c      |-> Range(220, 250, 235),
             bed_temp_c         |-> Range(70, 90, 80),
             print_speed_mm_s   |-> Range(30, 150, 80),
             enclosure_required |-> FALSE,
             notes              |-> "Strong and durable, slight stringing"]
    @@
    ABS :> [hotend_temp_c      |-> Range(230, 260, 245),
            bed_temp_c         |-> Range(80, 100, 90),
            print_speed_mm_s   |-> Range(40, 180, 100),
            enclosure_required |-> TRUE,
            notes              |-> "Requires enclosed chamber, strong parts"]
    @@
    ASA :> [hotend_temp_c      |-> Range(240, 270, 255),
            bed_temp_c         |-> Range(90, 100, 95),
            print_speed_mm_s   |-> Range(40, 180, 100),
            enclosure_required |-> TRUE,
            notes              |-> "UV resistant, similar to ABS"]
    @@
    TPU :> [hotend_temp_c      |-> Range(210, 240, 225),
            bed_temp_c         |-> Range(40, 60, 50),
            print_speed_mm_s   |-> Range(20, 60, 30),
            enclosure_required |-> FALSE,
            notes              |-> "Flexible, print slowly with direct drive"]

\* dict.get(key, default)
Get(dict, key, default) == IF key \in DOMAIN dict THEN dict[key] ELSE default

get_material_settings_exact(name) == Get(materials, name, None)

get_material_settings_stripped(name) == Get(materials, upper(strip(name)), None)

\* return materials.get(material.upper(), None)
get_material_settings(name) == Get(materials, upper(name), None)

-----------------------------------------------------------------------------
(* The arguments the calls are made with.                                  *)

\* How far around the 256 mm limit the dimensions are enumerated.
Slack == 1

\* Dimensions: the sizes example_volume_calculation uses (30, 50, 300), the
\* values around the limit, zero and a negative size.
Dims == {-300, 0, 30, 50, 300}
        \cup ((BUILD_VOLUME_WIDTH - Slack)..(BUILD_VOLUME_WIDTH + Slack))

Keys == {PLA, PETG, ABS, ASA, TPU}

LowerChar(c) ==
    IF \E i \in 1..Len(Uppercase) : Uppercase[i] = c
    THEN Lowercase[CHOOSE i \in 1..Len(Uppercase) : Uppercase[i] = c]
    ELSE c

\* Every spelling of key k that differs from it only in letter case.
CaseVariants(k) ==
    {[i \in 1..Len(k) |-> IF i \in S THEN LowerChar(k[i]) ELSE k[i]] :
        S \in SUBSET (1..Len(k))}

\* Names that are none of the five keys in any letter case.
OtherNames ==
    {<<>>,
     <<"P", "L">>,
     <<"P", "L", "A", " ">>,
     <<" ", "p", "l", "a">>,
     <<"P", "E", "T", "-", "G">>,
     <<"p", "e", "t", "g", " ">>,
     <<"P", "L", "A", "A">>,
     <<"n", "y", "l", "o", "n">>}

\* Spellings with the long s, which str.upper() maps onto ASA and ABS.
LongSNames == {<<"a", LongS, "a">>, <<"A", "B", LongS>>}

Names == UNION {CaseVariants(k) : k \in Keys} \cup OtherNames \cup LongSNames

\* The smaller argument sets of the call-history specification.
HistDims == {50, 300}
HistNames == {PLA, <<"p", "l", "a">>, ABS, <<"P", "L", "A", " ">>}

-----------------------------------------------------------------------------
(* The calls.                                                              *)

\* result = calculate_print_volume(w, d, h)  for some arguments from D.
calculate_print_volume_call(D) ==
    \E w \in D, d \in D, h \in D :
        /\ op' = "calculate_print_volume"
        /\ width_mm' = w
        /\ depth_mm' = d
        /\ height_mm' = h
        /\ material' = <<>>
        /\ result' = calculate_print_volume(w, d, h)
        /\ modified' = FALSE

\* A variant in which the table is one shared module-level dictionary: the
\* record a call returns is the table's own entry, so what the caller wrote
\* into the record it holds is what the next lookup of that key returns.
get_material_settings_shared_call(N) ==
    \E name \in N :
        /\ op' = "get_material_settings"
        /\ width_mm' = 0
        /\ depth_mm' = 0
        /\ height_mm' = 0
        /\ material' = name
        /\ result' = IF /\ op = "get_material_settings"
                        /\ result # None
                        /\ upper(material) = upper(name)
                     THEN result
                     ELSE get_material_settings(name)
        /\ modified' = FALSE

\* settings = get_material_settings(name)  for some name from N.
get_material_settings_call(N) ==
    \E name \in N :
        /\ op' = "get_material_settings"
        /\ width_mm' = 0
        /\ depth_mm' = 0
        /\ height_mm' = 0
        /\ material' = name
        /\ result' = get_material_settings(name)
        /\ modified' = FALSE

\* What a caller can write into a dictionary it was returned.
Writes(r) ==
    IF op = "get_material_settings"
    THEN {[r EXCEPT !.enclosure_required = ~@],
          [r EXCEPT !.hotend_temp_c.recommended = 0]}
    ELSE {[r EXCEPT !.fits = ~@],
          [r EXCEPT !.build_volume_mm3 = 0]}

\* The caller writes into the dictionary the last call returned.
CallerModify ==
    /\ op # "none"
    /\ result # None
    /\ ~modified
    /\ result' \in Writes(result)
    /\ modified' = TRUE
    /\ memo' = IF memo = None THEN memo ELSE [memo EXCEPT !.tampered = TRUE]
    /\ UNCHANGED <<op, width_mm, depth_mm, height_mm, material>>

\* The history variable: the first call it keeps, with the arguments and the
\* value returned, is remembered until the end.
Observe ==
    \E keep \in BOOLEAN :
        memo' = IF keep /\ memo = None
                THEN [op       |-> op',
                      args     |-> <<width_mm', depth_mm', height_mm', material'>>,
                      result   |-> result',
                      tampered |-> FALSE]
                ELSE memo

-----------------------------------------------------------------------------
(* Examples 1 to 4: a printer object is created, then used inside          *)
(*     try: ...  except Exception as e: print(...)  finally: disconnect()  *)
(* The printer belongs to the external library bambulabs_api: each of its  *)
(* methods either returns or raises, and time.sleep returns unless it is   *)
(* interrupted (KeyboardInterrupt, which is no Exception).                 *)

\* Most iterations of example_monitor_print's while loop that are followed.
MaxPolls == 2

Examples == {"example_basic_connection", "example_control_light",
             "example_monitor_print", "example_temperature_monitoring"}

\* The statements of each try block that call the printer or sleep, in order;
\* "while" is the loop test of example_monitor_print.
TryBody(ex) ==
    CASE ex = "example_basic_connection" ->
            <<"connect", "sleep", "get_state">>
      [] ex = "example_control_light" ->
            <<"connect", "sleep", "turn_light_on", "sleep",
              "turn_light_off", "sleep", "turn_light_on">>
      [] ex = "example_monitor_print" ->
            <<"connect", "sleep", "while", "get_state", "sleep">>
      [] ex = "example_temperature_monitoring" ->
            <<"connect", "sleep", "get_state">>

\* The index of the loop test the last statement of the body jumps back to
\* (0: the body has no loop).
LoopHead(ex) == IF ex = "example_monitor_print" THEN 3 ELSE 0

\* How a statement can end.
Outcomes(stmt) ==
    CASE stmt = "sleep" -> {"ok", "BaseException"}
      [] stmt = "while" -> {"enter", "exit"}
      [] OTHER -> {"ok", "Exception", "BaseException"}

\* A variant with no finally clause: disconnect() is the last statement of
\* the try block, so only a run that raises nothing reaches it.
StepAfterNoFinally(at, outcome) ==
    CASE at = "try" /\ outcome = "Exception" -> "except"
      [] at = "try" /\ outcome = "BaseException" -> "done"
      [] at = "try" -> "finally"
      [] at = "except" -> "done"

\* Where control goes when the try block (at = "try") or the except clause
\* (at = "except") is left: an Exception raised in the try block is caught by
\* the except clause, and every way out leads through the finally clause.
StepAfter(at, outcome) ==
    CASE at = "try" /\ outcome = "Exception" -> "except"
      [] at = "try" /\ outcome = "BaseException" -> "finally"
      [] at = "try" -> "finally"
      [] at = "except" -> "finally"

\* One of the examples is called.
StartExample ==
    /\ step \in {"idle", "done"}
    /\ \E ex \in Examples : example' = ex
    /\ step' = "create"
    /\ idx' = 0
    /\ polls' = 0
    /\ pending' = "none"
    /\ created' = FALSE
    /\ log' = <<>>

\* printer = bl.Printer(PRINTER_IP, ACCESS_CODE, PRINTER_SERIAL), which is
\* outside the try block: if it raises, the example is left at once.
CreatePrinter ==
    /\ step = "create"
    /\ \E raised \in BOOLEAN :
        IF raised
        THEN /\ pending' = "Exception"
             /\ step' = "done"
             /\ UNCHANGED <<idx, created>>
        ELSE /\ created' = TRUE
             /\ step' = "try"
             /\ idx' = 1
             /\ UNCHANGED pending
    /\ UNCHANGED <<example, polls, log>>

\* The next statement of the try block.
TryStatement ==
    /\ step = "try"
    /\ LET body == TryBody(example)
           stmt == body[idx]
           last == idx = Len(body)
       IN \E outcome \in Outcomes(stmt) :
            /\ outcome = "enter" => polls < MaxPolls
            /\ log' = IF stmt \in {"sleep", "while"} THEN log ELSE Append(log, stmt)
            /\ polls' = IF outcome = "enter" THEN polls + 1 ELSE polls
            /\ IF outcome \in {"ok", "enter"} /\ (~last \/ LoopHead(example) > 0)
               THEN /\ idx' = IF last THEN LoopHead(example) ELSE idx + 1
                    /\ UNCHANGED <<step, pending>>
               ELSE /\ step' = StepAfter("try", outcome)
                    /\ pending' = IF outcome = "BaseException" THEN outcome ELSE pending
                    /\ UNCHANGED idx
    /\ UNCHANGED <<example, created>>

\* except Exception as e: print(f"Error: {e}")
\* The exception is handled; the print may itself raise.
ExceptHandler ==
    /\ step = "except"
    /\ \E raised \in BOOLEAN :
        /\ pending' = IF raised THEN "Exception" ELSE "none"
        /\ step' = StepAfter("except", IF raised THEN "Exception" ELSE "ok")
    /\ UNCHANGED <<example, idx, polls, created, log>>

\* finally: printer.disconnect()
\* disconnect may raise as well; an exception already propagating is kept or
\* replaced, and the example is left either way.
Finally ==
    /\ step = "finally"
    /\ log' = Append(log, "disconnect")
    /\ \E raised \in BOOLEAN :
        pending' = IF raised THEN "Exception" ELSE pending
    /\ step' = "done"
    /\ UNCHANGED <<example, idx, polls, created>>

-----------------------------------------------------------------------------
(* Specifications.                                                         *)

Init ==
    /\ op = "none"
    /\ width_mm = 0
    /\ depth_mm = 0
    /\ height_mm = 0
    /\ material = <<>>
    /\ result = None
    /\ modified = FALSE
    /\ memo = None
    /\ example = "none"
    /\ step = "idle"
    /\ idx = 0
    /\ polls = 0
    /\ pending = "none"
    /\ created = FALSE
    /\ log = <<>>

\* The two helpers, called with any arguments in any order.
Next ==
    \/ calculate_print_volume_call(Dims) /\ UNCHANGED <<memo, exampleVars>>
    \/ get_material_settings_call(Names) /\ UNCHANGED <<memo, exampleVars>>

Spec == Init /\ [][Next]_vars

\* The helpers called repeatedly by a caller that keeps what it was returned
\* and may write into it.
NextHistory ==
    \/ calculate_print_volume_call(HistDims) /\ Observe /\ UNCHANGED exampleVars
    \/ get_material_settings_call(HistNames) /\ Observe /\ UNCHANGED exampleVars
    \/ CallerModify /\ UNCHANGED exampleVars

SpecHistory == Init /\ [][NextHistory]_vars

\* The printer examples, run one after another.
NextExamples ==
    \/ StartExample /\ UNCHANGED <<callVars, memo>>
    \/ CreatePrinter /\ UNCHANGED <<callVars, memo>>
    \/ TryStatement /\ UNCHANGED <<callVars, memo>>
    \/ ExceptHandler /\ UNCHANGED <<callVars, memo>>
    \/ Finally /\ UNCHANGED <<callVars, memo>>

SpecExamples == Init /\ [][NextExamples]_vars

-----------------------------------------------------------------------------
(* Properties.                                                             *)

VolumeCalled == op = "calculate_print_volume"
MaterialCalled == op = "get_material_settings"

\* floor(n * 10^k / d)  for n >= 0 and d > 0, by long division.
RECURSIVE Pow10(_)
Pow10(k) == IF k = 0 THEN 1 ELSE 10 * Pow10(k - 1)

RECURSIVE ScaledFloor(_, _, _)
ScaledFloor(n, d, k) ==
    IF k = 0 THEN n \div d
    ELSE (n \div d) * Pow10(k) + ScaledFloor((n % d) * 10, d, k - 1)

\* A non-negative fraction in units of 0.0001, rounded half up: 0.4468 is 4468.
RoundedTo4(q) == (ScaledFloor(q.num, q.den, 5) + 5) \div 10

\* C1: calculate_print_volume returns fits = true if and only if each of
\* width, depth and height is at most 256; the test is made axis by axis.
C1_FitsIffEachAxisWithin256 ==
    VolumeCalled =>
        (result.fits <=> (width_mm <= 256 /\ depth_mm <= 256 /\ height_mm <= 256))

\* C1 witness: a model exactly at the limit on one axis is reported as fitting.
C1_Witness ==
    /\ VolumeCalled
    /\ width_mm = 256 /\ depth_mm = 30 /\ height_mm = 50
    /\ result.fits

\* C2: each clearance component is 256 minus the model's dimension on that
\* axis; when some axis exceeds 256, fits is false and the clearance of every
\* exceeding axis is negative; fits is true exactly when all three clearance
\* components are >= 0.
C2_ClearanceSignalsOverflow ==
    VolumeCalled =>
        LET c == result.clearance_mm IN
        /\ c.width = 256 - width_mm
        /\ c.depth = 256 - depth_mm
        /\ c.height = 256 - height_mm
        /\ (width_mm > 256 \/ depth_mm > 256 \/ height_mm > 256) => ~result.fits
        /\ width_mm > 256 => c.width < 0
        /\ depth_mm > 256 => c.depth < 0
        /\ height_mm > 256 => c.height < 0
        /\ result.fits <=> (c.width >= 0 /\ c.depth >= 0 /\ c.height >= 0)

\* C2 witness: only the width overflows, and only its clearance is negative.
C2_Witness ==
    /\ VolumeCalled
    /\ width_mm = 300 /\ depth_mm = 50 /\ height_mm = 30
    /\ ~result.fits
    /\ result.clearance_mm = [width |-> -44, depth |-> 206, height |-> 226]

\* C3: model_volume_mm3 = width * depth * height, build_volume_mm3 = 16777216
\* and utilization_percent = model_volume / build_volume * 100, with no
\* clamping.  The fraction is stated as model_volume * 25 / 4194304, which is
\* model_volume * 100 / 16777216 with the factor 4 cancelled.
C3_VolumeAndUtilizationUnclamped ==
    VolumeCalled =>
        LET u == result.utilization_percent IN
        /\ result.model_volume_mm3 = width_mm * depth_mm * height_mm
        /\ result.build_volume_mm3 = 16777216
        /\ u.den > 0
        /\ 4194304 % u.den = 0
        /\ u.num * (4194304 \div u.den) = result.model_volume_mm3 * 25
        /\ result.model_volume_mm3 > 16777216 => u.num > 100 * u.den

\* C3 witness: 300 x 300 x 300 does not fit and its utilization is above 100.
C3_Witness ==
    /\ VolumeCalled
    /\ width_mm = 300 /\ depth_mm = 300 /\ height_mm = 300
    /\ ~result.fits
    /\ result.utilization_percent.num > 100 * result.utilization_percent.den

\* C4 as stated: for (50, 50, 30) the result has fits = true, a model volume
\* of 75000 and a utilization of approximately 0.4468 percent.
C4_Original ==
    (VolumeCalled /\ width_mm = 50 /\ depth_mm = 50 /\ height_mm = 30) =>
        /\ result.fits
        /\ result.model_volume_mm3 = 75000
        /\ RoundedTo4(result.utilization_percent) = 4468

\* C4 as amended: for (50, 50, 30) the result has fits = true, a model volume
\* of 75000 and a utilization of 0.4470 percent to four decimals.
C4_SmallPartUtilization ==
    (VolumeCalled /\ width_mm = 50 /\ depth_mm = 50 /\ height_mm = 30) =>
        /\ result.fits
        /\ result.model_volume_mm3 = 75000
        /\ RoundedTo4(result.utilization_percent) = 4470

\* C4 witness: the call with (50, 50, 30) has returned.
C4_Witness ==
    /\ VolumeCalled
    /\ width_mm = 50 /\ depth_mm = 50 /\ height_mm = 30
    /\ result.model_volume_mm3 = 75000

\* C5: a name that differs from one of the five keys only in letter case gets
\* the record the upper-case key gets.
C5_LookupIgnoresCase ==
    MaterialCalled =>
        \A k \in Keys :
            material \in CaseVariants(k) =>
                /\ result # None
                /\ result = get_material_settings(k)

\* C5 witness: a mixed-case spelling of PLA got the PLA record.
C5_Witness ==
    /\ MaterialCalled
    /\ material = <<"p", "L", "a">>
    /\ result # None
    /\ result.notes = "Easy to print, good for beginners"

\* C6: a name whose upper-cased form is none of the five keys gets None; no
\* trimming, partial matching or aliasing is applied, so "PLA " (trailing
\* space), "PET-G", "PL" and "nylon" get None; and a record is returned only
\* when the upper-cased name is one of the five keys, namely that key's record.
C6_UnknownNameGetsNone ==
    MaterialCalled =>
        /\ upper(material) \notin Keys => result = None
        /\ material \in OtherNames => result = None
        /\ result # None =>
                \E k \in Keys : upper(material) = k /\ result = materials[k]

\* C6 witness: "PLA " with a trailing space was looked up and not found.
C6_Witness ==
    /\ MaterialCalled
    /\ material = <<"P", "L", "A", " ">>
    /\ result = None

\* C7: a call returns what an earlier call with the same arguments returned,
\* whatever was called in between and whatever the caller wrote into a record
\* it had been returned.
C7_ResultIndependentOfHistory ==
    (/\ op # "none"
     /\ ~modified
     /\ memo # None
     /\ memo.op = op
     /\ memo.args = <<width_mm, depth_mm, height_mm, material>>)
        => result = memo.result

\* C7 witness: a material was looked up, the caller wrote into a returned
\* record, and the same name was looked up again and found.
C7_Witness ==
    /\ MaterialCalled
    /\ ~modified
    /\ memo # None
    /\ memo.tampered
    /\ memo.op = op
    /\ memo.args = <<width_mm, depth_mm, height_mm, material>>
    /\ result # None

\* The number of disconnect calls in the log.
Disconnects == Cardinality({i \in 1..Len(log) : log[i] = "disconnect"})

\* C8: once the printer object exists, every way out of an example invokes
\* disconnect exactly once, and no printer method is invoked after it.
C8_DisconnectOnceOnEveryExit ==
    /\ (step = "done" /\ created) =>
            /\ Disconnects = 1
            /\ log[Len(log)] = "disconnect"
    /\ \A i \in 1..(Len(log) - 1) : log[i] # "disconnect"
    /\ step \in {"try", "except", "finally"} => (created /\ Disconnects = 0)

\* C8 witness: connect raised in example_control_light, the error was
\* printed, and the example ended after disconnect.
C8_Witness ==
    /\ example = "example_control_light"
    /\ step = "done"
    /\ created
    /\ pending = "none"
    /\ log = <<"connect", "disconnect">>

\* C9: when all three dimensions are >= 0 and fits is true, the utilization is
\* between 0 and 100 and the model volume is at most the build volume.
C9_FitBoundsUtilization ==
    (/\ VolumeCalled
     /\ width_mm >= 0 /\ depth_mm >= 0 /\ height_mm >= 0
     /\ result.fits)
        => LET u == result.utilization_percent IN
           /\ u.num >= 0
           /\ u.num <= 100 * u.den
           /\ result.model_volume_mm3 <= result.build_volume_mm3

\* C9 witness: the model that fills the build volume has utilization 100.
C9_Witness ==
    /\ VolumeCalled
    /\ width_mm = 256 /\ depth_mm = 256 /\ height_mm = 256
    /\ result.fits
    /\ result.utilization_percent = [num |-> 100, den |-> 1]

InRange(r) == r.min <= r.recommended /\ r.recommended <= r.max

\* C10: every profile returned has min <= recommended <= max for the hotend
\* temperature, the bed temperature and the print speed, a hotend maximum of
\* at most 300, a bed maximum of at most 100 and a speed maximum of at most 500.
C10_ProfilesWithinPrinterLimits ==
    (MaterialCalled /\ result # None) =>
        /\ InRange(result.hotend_temp_c)
        /\ InRange(result.bed_temp_c)
        /\ InRange(result.print_speed_mm_s)
        /\ result.hotend_temp_c.max <= specs.toolhead.max_hotend_temperature_c
        /\ result.bed_temp_c.max <= specs.heated_bed.max_temperature_c
        /\ result.print_speed_mm_s.max <= specs.motion_system.max_speed_mm_per_s
        /\ specs.toolhead.max_hotend_temperature_c = 300
        /\ specs.heated_bed.max_temperature_c = 100
        /\ specs.motion_system.max_speed_mm_per_s = 500

\* C10 witness: the ASA profile, whose bed maximum is the printer's limit.
C10_Witness ==
    /\ MaterialCalled
    /\ material = ASA
    /\ result # None
    /\ result.bed_temp_c.max = 100

====
